---- MODULE Spec2Model ----
(***************************************************************************)
(* A model of the users/tweets REST service of main.py.                    *)
(*                                                                         *)
(* The two collections are text files.  A text is a sequence of tokens;    *)
(* json.dump and json.load are modelled on that text, and a file opened    *)
(* "r+" is overwritten from the seek position without being truncated,     *)
(* as the operating system does it.                                        *)
(*                                                                         *)
(* Python values are tagged tuples:                                        *)
(*   <<"null">>          None                                              *)
(*   <<"str", s>>        a str, s the sequence of its characters           *)
(*   <<"obj", f>>        a dict, f a function from keys to values          *)
(*   <<"date", d>>       a datetime.date, d its ordinal day                *)
(*   <<"uuid", u>>       a uuid.UUID                                       *)
(*   <<"datetime", t>>   a datetime.datetime                               *)
(* A Python list is a sequence of values.                                  *)
(***************************************************************************)
EXTENDS Integers, Sequences, FiniteSets, TLC

VARIABLES
    users_db,     \* content of users.json: NoFile or a text
    tweets_db,    \* content of tweets.json: NoFile or a text
    issued,       \* the identifiers uuid4() has returned or that were stored
    last,         \* the request handled last and its outcome
    prev,         \* the request before it, when that was a signup
    proc,         \* the concurrent signup requests: each one's position and locals
    last_writer,  \* the concurrent request that wrote users.json last
    todays_date,  \* date.today() as an ordinal day
    checked       \* the birth_date validated last and the validator's verdict

vars == <<users_db, tweets_db, issued, last, prev, proc, last_writer,
          todays_date, checked>>

-----------------------------------------------------------------------------
(* Bounds of the model *)

\* signup is offered while the user collection holds fewer records than this
MaxUsers == 2

\* post is offered while the tweet collection holds fewer records than this
MaxTweets == 2

\* length of the longer of the two non-JSON texts users.json may start with
CorruptLen == 60

\* date.today() ranges over FirstDay .. FirstDay + MaxDays
MaxDays == 2

\* the birth dates validated lie up to Window days on either side of the day
\* on which the computed age is exactly 18
Window == 20

-----------------------------------------------------------------------------
(* Python values *)

None == <<"null">>

Str(s) == <<"str", s>>

Obj(f) == <<"obj", f>>

Date(d) == <<"date", d>>

UUID(u) == <<"uuid", u>>

DateTime(t) == <<"datetime", t>>

\* str(v) for the values the handlers apply it to
PyStr(v) ==
    CASE v[1] = "str" -> v
      [] v[1] = "uuid" -> Str(<<v[2]>>)
      [] v[1] = "datetime" -> Str(<<v[2]>>)
      [] v[1] = "date" -> Str(<<ToString(v[2])>>)
      [] v[1] = "null" -> Str(<<"N", "o", "n", "e">>)

\* d[k] of a dict; Python raises KeyError when k is no key of d
HasKey(d, k) == k \in DOMAIN d[2]

Get(d, k) == d[2][k]

\* d[k] = v on a dict
SetKey(d, k, v) == Obj((k :> v) @@ d[2])

-----------------------------------------------------------------------------
(* JSON text *)

\* the file does not exist: no text, told from every text by its token
NoFile == <<"ENOENT">>

\* the order json.dump writes the keys in: the order of insertion in the dict
KeyOrder == <<"content", "password", "email", "first_name", "last_name",
              "birth_date", "user_id", "id", "created_at", "updated_at",
              "created_by">>

Keys == {KeyOrder[i] : i \in 1..Len(KeyOrder)}

WS == " "

RECURSIVE DumpValue(_, _)
RECURSIVE DumpFields(_, _, _)
RECURSIVE DumpItems(_, _)

\* the fields of a dict, "key: value" joined by the item separator
DumpFields(f, ks, indent) ==
    IF ks = <<>> THEN <<>>
    ELSE <<Head(ks)>> \o DumpValue(f[Head(ks)], indent)
         \o (IF Len(ks) > 1 THEN <<",", WS>> ELSE <<>>)
         \o DumpFields(f, Tail(ks), indent)

\* json.dumps(v, default=str) with or without indent=4.  With an indent every
\* non-empty container gets a line break after its opening and before its
\* closing bracket; the item separator is a comma and white space either way.
DumpValue(v, indent) ==
    CASE v[1] = "null" -> <<"null">>
      [] v[1] = "str" -> <<"\"">> \o v[2] \o <<"\"">>
      [] v[1] = "obj" ->
            LET ks == SelectSeq(KeyOrder, LAMBDA k : k \in DOMAIN v[2])
                pad == IF indent /\ ks # <<>> THEN <<WS>> ELSE <<>>
            IN  <<"{">> \o pad \o DumpFields(v[2], ks, indent) \o pad \o <<"}">>
      [] OTHER -> DumpValue(PyStr(v), indent)

DumpItems(xs, indent) ==
    IF xs = <<>> THEN <<>>
    ELSE DumpValue(Head(xs), indent)
         \o (IF Len(xs) > 1 THEN <<",", WS>> ELSE <<>>)
         \o DumpItems(Tail(xs), indent)

\* json.dumps of a list
Dump(xs, indent) ==
    LET pad == IF indent /\ xs # <<>> THEN <<WS>> ELSE <<>>
    IN  <<"[">> \o pad \o DumpItems(xs, indent) \o pad \o <<"]">>

JSONDecodeError == "JSONDecodeError"

\* The decoder's state: what it expects next, the list read so far, the stack
\* of the dicts that are open (each with the key whose value is being read)
\* and the characters of the string being read.
ScanStart == [mode |-> "start", items |-> <<>>, stack |-> <<>>, chars |-> <<>>]

\* a value v is complete: it is the value of the open dict's pending key
PutValue(st, v) ==
    LET n == Len(st.stack)
        top == st.stack[n]
    IN  [st EXCEPT !.mode = "objNext",
                   !.stack[n] = [top EXCEPT !.obj = (top.key :> v) @@ top.obj]]

\* "}" closes the open dict: an item of the list, or the value of a key of
\* the dict around it
CloseObj(st) ==
    LET n == Len(st.stack)
        v == Obj(st.stack[n].obj)
        popped == [st EXCEPT !.stack = SubSeq(st.stack, 1, n - 1)]
    IN  IF n = 1
        THEN [popped EXCEPT !.mode = "arrNext", !.items = Append(st.items, v)]
        ELSE PutValue(popped, v)

OpenObj(st) ==
    [st EXCEPT !.mode = "obj0",
               !.stack = Append(st.stack, [obj |-> <<>>, key |-> ""])]

\* one token read in state st
ScanStep(st, tok) ==
    LET m == st.mode
        err == [st EXCEPT !.mode = "error"]
    IN  CASE m = "str" ->
                IF tok = "\"" THEN PutValue([st EXCEPT !.chars = <<>>], Str(st.chars))
                ELSE [st EXCEPT !.chars = Append(st.chars, tok)]
          [] m # "str" /\ tok = WS -> st   \* white space between tokens is skipped
          [] m = "start" /\ tok # WS ->
                IF tok = "[" THEN [st EXCEPT !.mode = "arr0"] ELSE err
          [] m = "arr0" /\ tok # WS ->
                IF tok = "{" THEN OpenObj(st)
                ELSE IF tok = "]" THEN [st EXCEPT !.mode = "end"] ELSE err
          [] m = "arrItem" /\ tok # WS ->
                IF tok = "{" THEN OpenObj(st) ELSE err
          [] m = "arrNext" /\ tok # WS ->
                IF tok = "," THEN [st EXCEPT !.mode = "arrItem"]
                ELSE IF tok = "]" THEN [st EXCEPT !.mode = "end"] ELSE err
          [] m = "obj0" /\ tok # WS ->
                IF tok \in Keys
                THEN [st EXCEPT !.mode = "val", !.stack[Len(st.stack)].key = tok]
                ELSE IF tok = "}" THEN CloseObj(st) ELSE err
          [] m = "objItem" /\ tok # WS ->
                IF tok \in Keys
                THEN [st EXCEPT !.mode = "val", !.stack[Len(st.stack)].key = tok]
                ELSE err
          [] m = "objNext" /\ tok # WS ->
                IF tok = "," THEN [st EXCEPT !.mode = "objItem"]
                ELSE IF tok = "}" THEN CloseObj(st) ELSE err
          [] m = "val" /\ tok # WS ->
                IF tok = "null" THEN PutValue(st, None)
                ELSE IF tok = "\"" THEN [st EXCEPT !.mode = "str", !.chars = <<>>]
                ELSE IF tok = "{" THEN OpenObj(st) ELSE err
          [] OTHER -> err   \* "end": extra data; "error" stays

RECURSIVE Scan(_, _, _)
Scan(text, i, st) ==
    IF i > Len(text) \/ st.mode = "error" THEN st
    ELSE Scan(text, i + 1, ScanStep(st, text[i]))

\* json.loads(text): the list the text denotes, or JSONDecodeError
Loads(text) ==
    LET st == Scan(text, 1, ScanStart)
    IN  IF st.mode = "end" THEN st.items ELSE JSONDecodeError

\* a file opened "r+" and written at position pos: the bytes after the written
\* ones stay (nothing truncates the file)
Overwrite(old, pos, new) ==
    SubSeq(old, 1, pos) \o new \o SubSeq(old, pos + Len(new) + 1, Len(old))
-----------------------------------------------------------------------------
(* Requests *)

UUIDs == {"u1", "u2", "u3"}

TweetIds == {"w1", "w2"}

\* the values datetime.now() takes
Times == {"T1"}

FirstDay == 20000

\* the bodies /signup receives: UserRegister(...).dict() of a valid payload
Register(email, first, lastn, birth, pw) ==
    Obj([email |-> Str(email), first_name |-> Str(first), last_name |-> Str(lastn),
         birth_date |-> birth, password |-> Str(pw)])

Payloads ==
    { Register(<<"a", "@", "x">>, <<"A", "l">>, <<"B", "o">>, None, <<"p", "w">>),
      Register(<<"b", "@", "x">>, <<"A", "n", "a">>, <<"L", "i">>,
               Date(FirstDay - 7000), <<"p", "w">>) }

\* a record as the earlier version of the service stored it, keyed user_id
OldUser(u) ==
    Obj([user_id |-> Str(<<u>>), email |-> Str(<<"o", "@", "x">>),
         first_name |-> Str(<<"E", "m">>), last_name |-> Str(<<"C", "o">>),
         birth_date |-> Str(<<"1994-11-04">>), password |-> Str(<<"p", "w">>)])

\* a User as a tweet's body carries it
Author(u) ==
    Obj([id |-> UUID(u), email |-> Str(<<"o", "@", "x">>),
         first_name |-> Str(<<"E", "m">>), last_name |-> Str(<<"C", "o">>),
         birth_date |-> Date(FirstDay - 7000), created_at |-> DateTime("T0"),
         updated_at |-> None])

\* the bodies /post receives: Tweet(...).dict()
TweetBodies ==
    { Obj([content |-> Str(<<"h", "i">>), id |-> UUID(w), created_at |-> DateTime("T0"),
           updated_at |-> None, created_by |-> Author("u1")]) : w \in TweetIds }

Corrupt(n) == [i \in 1..n |-> "#"]

\* no request yet
NoRequest == [op |-> "none", arg |-> None, found |-> "none", outcome |-> "none",
              value |-> None]

\* Every handler ends by answering: the request becomes the last one.  found
\* is what the handler found users.json to be when it read it: "missing",
\* "corrupt" (json.load raised), "valid", or "unread".
Answer(op, arg, found, outcome, value) ==
    /\ last' = [op |-> op, arg |-> arg, found |-> found, outcome |-> outcome,
                value |-> value]
    /\ prev' = IF last.op = "signup" THEN last ELSE NoRequest

-----------------------------------------------------------------------------
(* The handlers, one request at a time *)

\* lines 159-162: the record signup builds from the body
UserDict(user, u, now) ==
    SetKey(SetKey(SetKey(user, "id", PyStr(UUID(u))),
                  "created_at", PyStr(DateTime(now))),
           "updated_at", None)

\* lines 168-171: json.load(f), a text that does not decode read as []
LoadOrEmpty(loaded) ==
    IF loaded = JSONDecodeError THEN <<>> ELSE loaded

\* the same without the seek: the text is written where the read ended
DumpWithoutSeek(text, results) == Overwrite(text, Len(text), Dump(results, TRUE))

\* lines 175-176 and 390-391: f.seek(0), then json.dump(results, f, indent=4)
SeekAndDump(text, results) == Overwrite(text, 0, Dump(results, TRUE))

\* what a handler finds users.json to be
FileState(db) ==
    IF db = NoFile THEN "missing"
    ELSE IF Loads(db) = JSONDecodeError THEN "corrupt" ELSE "valid"

\* the same with a file that is missing created empty, as open "w+" would
SignupCreating(db, user_dict) ==
    LET loaded == IF db = NoFile THEN JSONDecodeError ELSE Loads(db)
        results == Append(LoadOrEmpty(loaded), user_dict)
    IN  [found |-> FileState(db),
         count |-> Len(results),
         db |-> Dump(results, TRUE)
                \o (IF db = NoFile THEN <<>>
                    ELSE SubSeq(db, Len(Dump(results, TRUE)) + 1, Len(db))),
         outcome |-> "ok", value |-> user_dict]

\* lines 164-184 of signup: what it finds users.json to be, the text it leaves
\* in the file, and its answer
SignupOn(db, user_dict) ==
    IF db # NoFile
    THEN LET loaded == Loads(db)
             results == Append(LoadOrEmpty(loaded), user_dict)
         IN  [found |-> IF loaded = JSONDecodeError THEN "corrupt" ELSE "valid",
              count |-> Len(results),
              db |-> SeekAndDump(db, results),
              outcome |-> "ok", value |-> user_dict]
    ELSE [found |-> "missing", count |-> 0, db |-> db,
          outcome |-> "404", value |-> None]

\* uuid4() is taken to return an identifier it has not returned before and
\* that no record carries
signup(user, u, now) ==
    /\ u \in UUIDs \ issued
    /\ issued' = issued \cup {u}
    /\ \E r \in {SignupOn(users_db, UserDict(user, u, now))} :
          /\ r.count <= MaxUsers
          /\ users_db' = r.db
          /\ Answer("signup", user, r.found, r.outcome, r.value)
    /\ UNCHANGED <<tweets_db, proc, last_writer, todays_date, checked>>

\* lines 221-223 and 374-376: open the file and json.load it: the list, or the
\* exception open or json.load raises
ReadList(db) ==
    IF db = NoFile
    THEN [found |-> "missing", outcome |-> "FileNotFoundError", value |-> None]
    ELSE LET loaded == Loads(db)
         IN  IF loaded = JSONDecodeError
             THEN [found |-> "corrupt", outcome |-> "JSONDecodeError", value |-> None]
             ELSE [found |-> "valid", outcome |-> "ok", value |-> loaded]

show_all_users ==
    /\ \E users \in {ReadList(users_db)} :
          Answer("show_all_users", None, users.found, users.outcome, users.value)
    /\ UNCHANGED <<users_db, tweets_db, issued, proc, last_writer,
                   todays_date, checked>>

\* lines 259 and 299: [user for user in users if user["user_id"] == str(user_id)]
\* and its element 0; user["user_id"] raises KeyError, [0] of [] IndexError
FirstMatch(users, user_id) ==
    IF \E i \in 1..Len(users) : ~HasKey(users[i], "user_id")
    THEN [outcome |-> "KeyError", value |-> None]
    ELSE LET user == SelectSeq(users,
                        LAMBDA x : Get(x, "user_id") = PyStr(user_id))
         IN  IF user = <<>>
             THEN [outcome |-> "IndexError", value |-> None]
             ELSE [outcome |-> "ok", value |-> user[1]]

\* lines 257-263: show_all_users(), then the first match
ShowOn(db, user_id) ==
    LET users == ReadList(db)
        user == IF users.outcome = "ok" THEN FirstMatch(users.value, user_id)
                ELSE users
    IN  [found |-> users.found, outcome |-> user.outcome, value |-> user.value]

show_a_user(user_id) ==
    /\ \E r \in {ShowOn(users_db, user_id)} :
          Answer("show_a_user", user_id, r.found, r.outcome, r.value)
    /\ UNCHANGED <<users_db, tweets_db, issued, proc, last_writer,
                   todays_date, checked>>

\* list.remove(x): the first element equal to x goes
Remove(xs, x) ==
    LET i == CHOOSE j \in 1..Len(xs) :
                 xs[j] = x /\ \A k \in 1..(j - 1) : xs[k] # x
    IN  SubSeq(xs, 1, i - 1) \o SubSeq(xs, i + 1, Len(xs))

\* lines 297-311: show_all_users(), the first match, users.remove, and the
\* list dumped into the file opened "w", which truncates it
DeleteOn(db, user_id) ==
    LET users == ReadList(db)
        user_to_delete == IF users.outcome = "ok"
                          THEN FirstMatch(users.value, user_id)
                          ELSE users
    IN  [found |-> users.found,
         db |-> IF user_to_delete.outcome = "ok"
                THEN Dump(Remove(users.value, user_to_delete.value), FALSE)
                ELSE db,
         outcome |-> user_to_delete.outcome, value |-> user_to_delete.value]

\* the same with the tweets of the deleted user deleted as well
delete_cascading(user_id) ==
    /\ \E r \in {DeleteOn(users_db, user_id)}, tweets \in {ReadList(tweets_db)} :
          /\ users_db' = r.db
          /\ tweets_db' =
                IF r.outcome = "ok" /\ tweets.outcome = "ok"
                THEN Dump(SelectSeq(tweets.value,
                             LAMBDA t : Get(Get(t, "created_by"), "id") # PyStr(user_id)),
                          TRUE)
                ELSE tweets_db
          /\ Answer("delete_a_user", user_id, r.found, r.outcome, r.value)
    /\ UNCHANGED <<issued, proc, last_writer, todays_date, checked>>

delete_a_user(user_id) ==
    /\ \E r \in {DeleteOn(users_db, user_id)} :
          /\ users_db' = r.db
          /\ Answer("delete_a_user", user_id, r.found, r.outcome, r.value)
    /\ UNCHANGED <<tweets_db, issued, proc, last_writer, todays_date, checked>>

\* lines 322-331: the body is pass
update_a_user(user_id, user) ==
    /\ Answer("update_a_user", user_id, "unread", "ok", None)
    /\ UNCHANGED <<users_db, tweets_db, issued, proc, last_writer,
                   todays_date, checked>>

\* lines 374-392 of post: the text it leaves in tweets.json, and its answer
PostOn(db, tweet) ==
    LET tweets == ReadList(db)
        results == Append(tweets.value, tweet)
    IN  IF tweets.outcome = "ok"
        THEN [count |-> Len(results), db |-> SeekAndDump(db, results),
              outcome |-> "ok", value |-> tweet]
        ELSE [count |-> 0, db |-> db, outcome |-> tweets.outcome, value |-> None]

post(tweet) ==
    /\ \E r \in {PostOn(tweets_db, tweet)} :
          /\ r.count <= MaxTweets
          /\ tweets_db' = r.db
          /\ Answer("post", tweet, "unread", r.outcome, r.value)
    /\ UNCHANGED <<users_db, issued, proc, last_writer, todays_date, checked>>

-----------------------------------------------------------------------------
(* The birth_date validator *)

\* nothing validated yet
Unchecked == [today |-> 0, v |-> None, outcome |-> "none", value |-> None]

\* line 80: the number of days of a year, and the age to be exceeded
DaysPerYear == 365

AdultAge == 18

\* a / b <= c, Python's true division of two ints: for day counts the float
\* quotient compares with c as the exact quotient does
StrictDivLeq(a, b, c) == a < c * b

FloorDivLeq(a, b, c) == (a \div b) <= c

TrueDivLeq(a, b, c) == a <= c * b

\* lines 76-83: raise ValueError, or return v
is_over_eighteen(today, v) ==
    LET delta_days == today - v[2]
    IN  IF TrueDivLeq(delta_days, DaysPerYear, AdultAge)
        THEN [outcome |-> "ValueError", value |-> None]
        ELSE [outcome |-> "ok", value |-> v]

\* lines 71-75: birth_date is optional and the validator is not declared
\* always=True: it is not called on an absent birth_date
ValidateBirthDate(today, v) ==
    IF v = None THEN [outcome |-> "ok", value |-> None]
    ELSE is_over_eighteen(today, v)

\* the day counts (today - birth_date).days tried: around 18 years, and
\* around a birth date of today
DayCounts ==
    ((AdultAge * DaysPerYear - Window) .. (AdultAge * DaysPerYear + Window))
    \cup (-1 .. 1)

validate(v) ==
    /\ \E r \in {ValidateBirthDate(todays_date, v)} :
          checked' = [today |-> todays_date, v |-> v, outcome |-> r.outcome,
                      value |-> r.value]
    /\ UNCHANGED <<users_db, tweets_db, issued, last, prev, proc, last_writer,
                   todays_date>>

\* midnight passes
tick ==
    /\ todays_date < FirstDay + MaxDays
    /\ todays_date' = todays_date + 1
    /\ UNCHANGED <<users_db, tweets_db, issued, last, prev, proc, last_writer,
                   checked>>

-----------------------------------------------------------------------------
(* The service handling one request after the other *)

Idle == [p \in {1, 2} |-> [pc |-> "idle", user_dict |-> None, found |-> "unread",
                           results |-> <<>>, pos |-> 0, outcome |-> "none"]]

\* users.json is not created by the service.  It starts missing, as a
\* collection in a format the service writes, or as a text that is not JSON.
UsersInit ==
    { NoFile, Dump(<<>>, FALSE), Dump(<<OldUser("u1")>>, FALSE),
      Corrupt(1), Corrupt(CorruptLen) }

TweetsInit == { NoFile, Dump(<<>>, FALSE) }

Init ==
    /\ users_db \in UsersInit
    /\ tweets_db \in TweetsInit
    /\ issued = {"u1"}
    /\ last = NoRequest
    /\ prev = NoRequest
    /\ proc = Idle
    /\ last_writer = 0
    /\ todays_date = FirstDay
    /\ checked = Unchecked

Next ==
    \/ \E user \in Payloads, u \in UUIDs, now \in Times : signup(user, u, now)
    \/ show_all_users
    \/ \E u \in UUIDs : show_a_user(UUID(u))
    \/ \E u \in UUIDs : delete_a_user(UUID(u))
    \/ \E u \in UUIDs, user \in Payloads : update_a_user(UUID(u), user)
    \/ \E tweet \in TweetBodies : post(tweet)

Spec == Init /\ [][Next]_vars
-----------------------------------------------------------------------------
(* Validation of birth dates, day after day *)

InitAge ==
    /\ users_db = NoFile
    /\ tweets_db = NoFile
    /\ issued = {}
    /\ last = NoRequest
    /\ prev = NoRequest
    /\ proc = Idle
    /\ last_writer = 0
    /\ todays_date = FirstDay
    /\ checked = Unchecked

NextAge ==
    \/ validate(None)
    \/ \E k \in DayCounts : validate(Date(todays_date - k))
    \/ tick

SpecAge == InitAge /\ [][NextAge]_vars

-----------------------------------------------------------------------------
(* Two signup requests running concurrently, statement by statement *)

\* lines 159-162: the record is built
Begin(p, user, u, now) ==
    /\ proc[p].pc = "idle"
    /\ u \in UUIDs \ issued
    /\ issued' = issued \cup {u}
    /\ proc' = [proc EXCEPT ![p].pc = "built",
                            ![p].user_dict = UserDict(user, u, now)]
    /\ UNCHANGED <<users_db, tweets_db, last, prev, last_writer, todays_date, checked>>

\* lines 164-166 and 181-184: os.path.exists, then open "r+" or the 404
Open(p) ==
    /\ proc[p].pc = "built"
    /\ proc' = IF users_db # NoFile
               THEN [proc EXCEPT ![p].pc = "opened", ![p].pos = 0]
               ELSE [proc EXCEPT ![p].pc = "done", ![p].found = "missing",
                                 ![p].outcome = "404"]
    /\ UNCHANGED <<users_db, tweets_db, issued, last, prev, last_writer,
                   todays_date, checked>>

\* lines 168-171: json.load reads the whole file
Load(p) ==
    /\ proc[p].pc = "opened"
    /\ proc' = [proc EXCEPT ![p].pc = "loaded",
                            ![p].found = FileState(users_db),
                            ![p].results = LoadOrEmpty(Loads(users_db)),
                            ![p].pos = Len(users_db)]
    /\ UNCHANGED <<users_db, tweets_db, issued, last, prev, last_writer,
                   todays_date, checked>>

\* line 173
AppendRecord(p) ==
    /\ proc[p].pc = "loaded"
    /\ proc' = [proc EXCEPT ![p].pc = "appended",
                            ![p].results = Append(proc[p].results, proc[p].user_dict)]
    /\ UNCHANGED <<users_db, tweets_db, issued, last, prev, last_writer,
                   todays_date, checked>>

\* line 175
Seek(p) ==
    /\ proc[p].pc = "appended"
    /\ proc' = [proc EXCEPT ![p].pc = "sought", ![p].pos = 0]
    /\ UNCHANGED <<users_db, tweets_db, issued, last, prev, last_writer,
                   todays_date, checked>>

\* the same with the file re-read at the moment of writing, as under a lock
DumpCloseMerged(p) ==
    /\ proc[p].pc = "sought"
    /\ users_db' = Overwrite(users_db, proc[p].pos,
                             Dump(Append(LoadOrEmpty(Loads(users_db)),
                                         proc[p].user_dict), TRUE))
    /\ last_writer' = p
    /\ proc' = [proc EXCEPT ![p].pc = "done", ![p].outcome = "ok"]
    /\ UNCHANGED <<tweets_db, issued, last, prev, todays_date, checked>>

\* lines 176-178: json.dump into the buffer, written at the position when the
\* with block closes the file; the record is returned
DumpClose(p) ==
    /\ proc[p].pc = "sought"
    /\ users_db' = Overwrite(users_db, proc[p].pos, Dump(proc[p].results, TRUE))
    /\ last_writer' = p
    /\ proc' = [proc EXCEPT ![p].pc = "done", ![p].outcome = "ok"]
    /\ UNCHANGED <<tweets_db, issued, last, prev, todays_date, checked>>

InitRace ==
    /\ users_db \in UsersInit
    /\ tweets_db = Dump(<<>>, FALSE)
    /\ issued = {"u1"}
    /\ last = NoRequest
    /\ prev = NoRequest
    /\ proc = Idle
    /\ last_writer = 0
    /\ todays_date = FirstDay
    /\ checked = Unchecked

NextRace ==
    \/ \E p \in DOMAIN proc, user \in Payloads, u \in UUIDs, now \in Times :
          Begin(p, user, u, now)
    \/ \E p \in DOMAIN proc : Open(p)
    \/ \E p \in DOMAIN proc : Load(p)
    \/ \E p \in DOMAIN proc : AppendRecord(p)
    \/ \E p \in DOMAIN proc : Seek(p)
    \/ \E p \in DOMAIN proc : DumpClose(p)

SpecRace == InitRace /\ [][NextRace]_vars

-----------------------------------------------------------------------------
(* Properties of the service handling one request after the other *)

\* the identifier of a stored record: "id" as signup and post write it,
\* "user_id" as the earlier records carry it
Ident(rec) == IF HasKey(rec, "id") THEN Get(rec, "id") ELSE Get(rec, "user_id")

\* what json.load gives back for a value json.dump(default=str) wrote
RECURSIVE Jsonable(_)
Jsonable(v) ==
    CASE v[1] \in {"null", "str"} -> v
      [] v[1] = "obj" -> Obj([k \in DOMAIN v[2] |-> Jsonable(v[2][k])])
      [] OTHER -> PyStr(v)

\* the request before the last one was a signup that found a valid collection
\* and succeeded
AfterSignup ==
    /\ prev.op = "signup"
    /\ prev.found = "valid"
    /\ prev.outcome = "ok"

SameProfile(rec, user) ==
    \A k \in {"email", "first_name", "last_name"} : Get(rec, k) = Get(user, k)

C2_GetAfterCreate ==
    (last.op = "show_a_user" /\ AfterSignup
       /\ PyStr(last.arg) = Get(prev.value, "id"))
    => /\ last.outcome = "ok"
       /\ Ident(last.value) = PyStr(last.arg)

\* C3: a signup that returned identifier i followed immediately by
\* delete_a_user(i): the delete answers with the removed record and the
\* collection no longer holds a record with identifier i.
C3_DeleteAfterCreate ==
    (last.op = "delete_a_user" /\ AfterSignup
       /\ PyStr(last.arg) = Get(prev.value, "id"))
    => /\ last.outcome = "ok"
       /\ Jsonable(prev.value) = last.value
       /\ LET users == ReadList(users_db)
          IN  /\ users.outcome = "ok"
              /\ \A i \in 1..Len(users.value) :
                    Ident(users.value[i]) # PyStr(last.arg)

Distinct(xs) ==
    \A i, j \in 1..Len(xs) : i # j => Ident(xs[i]) # Ident(xs[j])

\* C4: no two records of the user collection share an identifier and no two
\* records of the tweet collection share an identifier.
C4_UniqueIdentifiers ==
    /\ ReadList(users_db).outcome = "ok" => Distinct(ReadList(users_db).value)
    /\ ReadList(tweets_db).outcome = "ok" => Distinct(ReadList(tweets_db).value)

\* C5: show_a_user and delete_a_user with an identifier that no record of a
\* valid collection carries end with a 404 outcome.
C5_NotFound ==
    (/\ last.op \in {"show_a_user", "delete_a_user"}
     /\ last.found = "valid"
     /\ last.outcome # "ok"
     /\ \A i \in 1..Len(ReadList(users_db).value) :
           Ident(ReadList(users_db).value[i]) # PyStr(last.arg))
    => last.outcome = "404"

\* C6: signup while users.json does not exist answers 404 with no record,
\* and leaves users.json missing and tweets.json as it was.
C6_StorageMissing ==
    [][(users_db = NoFile /\ last'.op = "signup")
       => /\ last'.outcome = "404"
          /\ last'.value = None
          /\ users_db' = NoFile
          /\ tweets_db' = tweets_db]_vars

C6_Witness ==
    /\ last.op = "signup"
    /\ last.found = "missing"
    /\ last.outcome = "404"
    /\ users_db = NoFile

\* C10: a successful post stores the tweet with its author's full object, as
\* json writes it, at the end of the collection; signup, delete_a_user and
\* update_a_user leave tweets.json as it is.
C10_EmbeddedAuthor ==
    [][/\ (last'.op = "post" /\ last'.outcome = "ok")
          => LET stored == Loads(tweets_db')
             IN  /\ stored = Append(Loads(tweets_db), Jsonable(last'.arg))
                 /\ Get(stored[Len(stored)], "created_by")
                       = Jsonable(Get(last'.arg, "created_by"))
       /\ last'.op \in {"signup", "delete_a_user", "update_a_user"}
          => tweets_db' = tweets_db]_vars

C10_Witness ==
    /\ last.op = "delete_a_user"
    /\ last.outcome = "ok"
    /\ ReadList(tweets_db).outcome = "ok"
    /\ \E i \in 1..Len(ReadList(tweets_db).value) :
          Get(Get(ReadList(tweets_db).value[i], "created_by"), "id") = PyStr(last.arg)

\* the last request was a signup that found users.json not to decode
SignupOnCorrupt ==
    /\ last.op = "signup"
    /\ last.found = "corrupt"

\* the request before the last one was such a signup, and it succeeded
AfterSignupOnCorrupt ==
    /\ prev.op = "signup"
    /\ prev.found = "corrupt"
    /\ prev.outcome = "ok"

\* C11: a signup that finds users.json existing with a content that is not
\* JSON, of any length, succeeds and leaves a file that decodes to exactly the
\* new record, and a show_all_users that follows returns exactly that record.
C11_CorruptStorage ==
    /\ SignupOnCorrupt
        => /\ last.outcome = "ok"
           /\ ReadList(users_db).outcome = "ok"
           /\ ReadList(users_db).value = <<Jsonable(last.value)>>
    /\ (last.op = "show_all_users" /\ AfterSignupOnCorrupt)
        => /\ last.outcome = "ok"
           /\ last.value = <<Jsonable(prev.value)>>
-----------------------------------------------------------------------------
(* Properties of two concurrent signups *)

BothAnswered ==
    \A p \in DOMAIN proc : proc[p].pc = "done" /\ proc[p].outcome = "ok"

Holds(users, rec) ==
    \E i \in 1..Len(users) : Ident(users[i]) = Get(rec, "id")

\* C7: once two concurrent signups have both answered with success, the file
\* starts with the text the last writer dumped from the list it had read, and
\* a collection that decodes is that list: it holds the other request's record
\* only if the last writer had read it.  The witness is the execution in
\* which it had not, and the other record is lost.
C7_LastWriterWins ==
    BothAnswered =>
        LET w == last_writer
            written == Dump(proc[w].results, TRUE)
            stored == Loads(users_db)
        IN  /\ SubSeq(users_db, 1, Len(written)) = written
            /\ stored # JSONDecodeError
                  => /\ Len(stored) = Len(proc[w].results)
                     /\ \A i \in 1..Len(stored) :
                           stored[i] = Jsonable(proc[w].results[i])

C7_Witness ==
    /\ BothAnswered
    /\ \A p \in DOMAIN proc : proc[p].found = "valid"
    /\ Loads(users_db) # JSONDecodeError
    /\ Holds(Loads(users_db), proc[last_writer].user_dict)
    /\ ~Holds(Loads(users_db), proc[3 - last_writer].user_dict)

-----------------------------------------------------------------------------
(* Properties of the birth_date validator *)

DaysOld == checked.today - checked.v[2]

\* C8: a present birth_date is rejected exactly when the day count is at most
\* 6570 and accepted, returned unchanged, exactly when it is greater; an
\* absent birth_date is accepted.
C8_AgeRule ==
    checked.outcome # "none" =>
        IF checked.v = None THEN checked.outcome = "ok"
        ELSE /\ checked.outcome = "ValueError" <=> DaysOld <= 6570
             /\ (checked.outcome = "ok" /\ checked.value = checked.v)
                   <=> DaysOld > 6570

C8_Witness ==
    /\ checked.outcome = "ValueError"
    /\ DaysOld = 6570

\* C9 as claimed: a birth date 18 * 365 + 1 days before today is rejected.
C9_BoundaryRejected ==
    (checked.outcome # "none" /\ checked.v # None /\ DaysOld = 18 * 365 + 1)
    => checked.outcome = "ValueError"

\* C9 amended: a birth date 18 * 365 + 1 days before today is accepted and
\* returned unchanged.
C9_BoundaryAccepted ==
    (checked.outcome # "none" /\ checked.v # None /\ DaysOld = 18 * 365 + 1)
    => (checked.outcome = "ok" /\ checked.value = checked.v)

C9_Witness ==
    /\ checked.v # None
    /\ DaysOld = 18 * 365 + 1
    /\ checked.outcome = "ok"

====
